---- MODULE Spec2Model ----
(***************************************************************************)
(* Chiasm-Explorer: the linear verse index (verse_indexing.py) and the     *)
(* mirror pairing of a psalm's verses (psalm_chiasm_explorer.py).          *)
(***************************************************************************)
EXTENDS Integers, Sequences, FiniteSets, TLC

(***************************************************************************)
(* Bounds of the model.                                                    *)
(***************************************************************************)
\* chapters per book range over 0..MaxChapters
MaxChapters == 2
\* a chapter's verse count ranges over 1..MaxVerseCount, or is missing
MaxVerseCount == 2
\* a psalm handed to compute_pairings has at most MaxPsalmVerses verses
MaxPsalmVerses == 5
\* a psalm paired in both orders has at most MaxSwappedVerses verses
MaxSwappedVerses == 4
\* a psalm put on display has at most MaxDisplayVerses verses
MaxDisplayVerses == 4
\* compare_anchor_themes is handed at most MaxAnchors anchors
MaxAnchors == 3
\* a book of a reported scope has one chapter of at most MaxReportVerses verses
MaxReportVerses == 3

\* book ids the book table OT_BOOKS knows, and one it does not know
TableBooks == {"GEN", "EXO"}
UnknownBook == "XXX"
BookIds == TableBooks \cup {UnknownBook}

VARIABLES
    books,        \* VerseIndex.books: the scope's ordered book ids
    OT_BOOKS,     \* the book table: book id -> [chapters, verses_per_chapter]
    constructed,  \* VerseIndex.__init__ has returned
    verse_list,   \* VerseIndex.verse_list
    ret,          \* outcome of the last VerseIndex call
    psalm_data,   \* the ordered verse list handed to compute_pairings
    pairs,        \* the last result of compute_pairings (computed: has it run)
    pairs_reversed,  \* compute_pairings' result on the psalm in reverse order
    display,      \* the explorer page: its outcome, min_lemmas, entries shown
    anchors,      \* the anchors handed to compare_anchor_themes
    themes,       \* the last result of compare_anchor_themes
    report        \* the ChiasmAnalyzer report being built, step by step

indexVars == <<books, OT_BOOKS, constructed, verse_list, ret>>
pairVars == <<psalm_data, pairs>>
\* the state of the callers of the index and of compute_pairings
\* the state of ChiasmAnalyzer's callers
analysisVars == <<anchors, themes, report>>
callerVars == <<pairs_reversed, display, analysisVars>>
vars == <<indexVars, pairVars, callerVars>>

(***************************************************************************)
(* Helpers on sequences.                                                   *)
(***************************************************************************)
\* the injective sequences over S (every ordering of every subset)
RECURSIVE InjSeqs(_)
InjSeqs(S) ==
    {<<>>} \cup UNION {{<<x>> \o s : s \in InjSeqs(S \ {x})} : x \in S}

\* functions from each subset of D into R: a Python dict with keys in D
PartialMaps(D, R) == UNION {[K -> R] : K \in SUBSET D}

(***************************************************************************)
(* verse_indexing.py                                                       *)
(***************************************************************************)
\* book_info["verses_per_chapter"].get(chapter, 0)
VerseCountOf(book_info, chapter) ==
    IF chapter \in DOMAIN book_info.verses_per_chapter
    THEN book_info.verses_per_chapter[chapter]
    ELSE 0

\* AppendVerse with the index taken after the append (1-based)
AppendVerseOneBased(verses, book_id, chapter, verse) ==
    Append(verses, [book_id |-> book_id, chapter |-> chapter,
                    verse |-> verse, index |-> Len(verses) + 1])

\* verses.append({... "index": len(verses)})
AppendVerse(verses, book_id, chapter, verse) ==
    Append(verses, [book_id |-> book_id, chapter |-> chapter,
                    verse |-> verse, index |-> Len(verses)])

\* for verse in range(1, verse_count + 1)
RECURSIVE VerseLoop(_, _, _, _, _)
VerseLoop(verses, book_id, chapter, verse, verse_count) ==
    IF verse > verse_count
    THEN verses
    ELSE VerseLoop(AppendVerse(verses, book_id, chapter, verse),
                   book_id, chapter, verse + 1, verse_count)

\* for chapter in range(1, book_info["chapters"] + 1)
RECURSIVE ChapterLoop(_, _, _, _)
ChapterLoop(verses, book_id, book_info, chapter) ==
    IF chapter > book_info.chapters
    THEN verses
    ELSE ChapterLoop(VerseLoop(verses, book_id, chapter, 1,
                               VerseCountOf(book_info, chapter)),
                     book_id, book_info, chapter + 1)

\* for book_id in self.books, skipping the ids the table does not hold
RECURSIVE BookLoop(_, _, _, _)
BookLoop(verses, bks, table, k) ==
    IF k > Len(bks)
    THEN verses
    ELSE IF bks[k] \notin DOMAIN table
         THEN BookLoop(verses, bks, table, k + 1)
         ELSE BookLoop(ChapterLoop(verses, bks[k], table[bks[k]], 1),
                       bks, table, k + 1)

\* VerseIndex._build_verse_list
BuildVerseList(bks, table) == BookLoop(<<>>, bks, table, 1)

\* Python's list[k] on a list of length n: the 1-based position read, or 0
\* when the subscript raises IndexError (a negative k counts from the end)
PyListPos(n, k) ==
    LET j == IF k < 0 THEN k + n ELSE k
    IN  IF 0 <= j /\ j < n THEN j + 1 ELSE 0

\* A dict literal {key: self.verse_list[idx], ...}: entries in insertion
\* order; any subscript out of range raises IndexError for the whole call.
Lookups(op, list, wanted) ==
    IF \E i \in 1..Len(wanted) : PyListPos(Len(list), wanted[i].idx) = 0
    THEN [op |-> op, status |-> "IndexError", arg |-> 0, val |-> <<>>]
    ELSE [op |-> op, status |-> "ok", arg |-> 0,
          val |-> [i \in 1..Len(wanted) |->
                     [key |-> wanted[i].key,
                      verse |-> list[PyListPos(Len(list), wanted[i].idx)]]]]

\* VerseIndex.get_middle_verse: the subscript it reads
MiddleWanted(n) == <<[key |-> "middle", idx |-> n \div 2]>>

\* QuartileWanted with Q3 computed as 3 * (n // 4)
QuartileWantedQ3Truncated(n) ==
    <<[key |-> "Q1", idx |-> n \div 4],
      [key |-> "Q2", idx |-> n \div 2],
      [key |-> "Q3", idx |-> 3 * (n \div 4)]>>

\* VerseIndex.get_quartile_verses: the subscripts it reads, in dict order
QuartileWanted(n) ==
    <<[key |-> "Q1", idx |-> n \div 4],
      [key |-> "Q2", idx |-> n \div 2],
      [key |-> "Q3", idx |-> (3 * n) \div 4]>>

\* AnchorWanted with the last anchor read at n instead of n - 1
AnchorWantedLastAtN(n) ==
    <<[key |-> "first", idx |-> 0],
      [key |-> "Q1", idx |-> n \div 4],
      [key |-> "Q2_middle", idx |-> n \div 2],
      [key |-> "Q3", idx |-> (3 * n) \div 4],
      [key |-> "last", idx |-> n]>>

\* AnchorWanted with Q1 rounded up
AnchorWantedQ1RoundedUp(n) ==
    <<[key |-> "first", idx |-> 0],
      [key |-> "Q1", idx |-> (n + 3) \div 4],
      [key |-> "Q2_middle", idx |-> n \div 2],
      [key |-> "Q3", idx |-> (3 * n) \div 4],
      [key |-> "last", idx |-> n - 1]>>

\* AnchorWanted with the middle taken as (n - 1) // 2
AnchorWantedLowerMiddle(n) ==
    <<[key |-> "first", idx |-> 0],
      [key |-> "Q1", idx |-> n \div 4],
      [key |-> "Q2_middle", idx |-> (n - 1) \div 2],
      [key |-> "Q3", idx |-> (3 * n) \div 4],
      [key |-> "last", idx |-> n - 1]>>

\* VerseIndex.get_chiasm_anchors: the subscripts it reads, in dict order
AnchorWanted(n) ==
    <<[key |-> "first", idx |-> 0],
      [key |-> "Q1", idx |-> n \div 4],
      [key |-> "Q2_middle", idx |-> n \div 2],
      [key |-> "Q3", idx |-> (3 * n) \div 4],
      [key |-> "last", idx |-> n - 1]>>

\* VerseByIndex with the guard 0 < index, which turns index 0 away
VerseByIndexStrictGuard(list, index) ==
    IF 0 < index /\ index < Len(list)
    THEN [op |-> "get_verse_by_index", status |-> "ok", arg |-> index,
          val |-> <<[key |-> "verse", verse |-> list[index + 1]]>>]
    ELSE [op |-> "get_verse_by_index", status |-> "None", arg |-> index,
          val |-> <<>>]

\* VerseIndex.get_verse_by_index: the guarded read, None when out of range
VerseByIndex(list, index) ==
    IF 0 <= index /\ index < Len(list)
    THEN [op |-> "get_verse_by_index", status |-> "ok", arg |-> index,
          val |-> <<[key |-> "verse", verse |-> list[index + 1]]>>]
    ELSE [op |-> "get_verse_by_index", status |-> "None", arg |-> index,
          val |-> <<>>]

NoCall == [op |-> "none", status |-> "none", arg |-> 0, val |-> <<>>]

(***************************************************************************)
(* The book table and the scopes the index is built for.                   *)
(***************************************************************************)
\* one OT_BOOKS entry: a chapter count and a dict chapter -> verse count
\* (a chapter the dict does not hold counts 0 verses, as a stored 0 would)
BookInfos ==
    UNION {[chapters : {c}, verses_per_chapter : PartialMaps(1..c, 1..MaxVerseCount)]
             : c \in 0..MaxChapters}

EmptyBook == [chapters |-> 0, verses_per_chapter |-> <<>>]

\* VerseIndex.__init__: scope_id resolved to its books, the list built;
\* there is no check of the list's length
Construct ==
    /\ ~constructed
    /\ constructed' = TRUE
    /\ verse_list' = BuildVerseList(books, OT_BOOKS)
    /\ ret' = [op |-> "__init__", status |-> "ok", arg |-> 0, val |-> <<>>]
    /\ UNCHANGED <<books, OT_BOOKS, pairVars, callerVars>>

\* The index just built, no query made on it yet. The list is read-only once
\* built and a query's outcome depends on no earlier query, so a behaviour
\* makes one query on the index it built.
FreshIndex == constructed /\ ret.op = "__init__"

\* VerseIndex.get_verse_count
GetVerseCount ==
    /\ FreshIndex
    /\ ret' = [op |-> "get_verse_count", status |-> "ok",
               arg |-> Len(verse_list), val |-> <<>>]
    /\ UNCHANGED <<books, OT_BOOKS, constructed, verse_list, pairVars, callerVars>>

\* VerseIndex.get_verse_by_index(index)
GetVerseByIndex ==
    /\ FreshIndex
    /\ \E index \in -1..(Len(verse_list) + 1) :
           ret' = VerseByIndex(verse_list, index)
    /\ UNCHANGED <<books, OT_BOOKS, constructed, verse_list, pairVars, callerVars>>

\* VerseIndex.get_middle_verse
GetMiddleVerse ==
    /\ FreshIndex
    /\ ret' = Lookups("get_middle_verse", verse_list,
                      MiddleWanted(Len(verse_list)))
    /\ UNCHANGED <<books, OT_BOOKS, constructed, verse_list, pairVars, callerVars>>

\* VerseIndex.get_quartile_verses
GetQuartileVerses ==
    /\ FreshIndex
    /\ ret' = Lookups("get_quartile_verses", verse_list,
                      QuartileWanted(Len(verse_list)))
    /\ UNCHANGED <<books, OT_BOOKS, constructed, verse_list, pairVars, callerVars>>

\* VerseIndex.get_chiasm_anchors
GetChiasmAnchors ==
    /\ FreshIndex
    /\ ret' = Lookups("get_chiasm_anchors", verse_list,
                      AnchorWanted(Len(verse_list)))
    /\ UNCHANGED <<books, OT_BOOKS, constructed, verse_list, pairVars, callerVars>>

\* compare_anchor_themes not called yet
NoThemes == [computed |-> FALSE, total_unique_words |-> 0,
             repeated_words |-> <<>>]

\* no report asked for yet
NoReport == [name |-> "none", pc |-> "idle", todo |-> <<>>, pos |-> 0,
             sefaria_data |-> <<>>, web_text |-> <<>>, results |-> <<>>,
             log |-> <<>>]

\* no caller has run yet
InitCallers ==
    /\ pairs_reversed = [computed |-> FALSE, list |-> <<>>]
    /\ display = [outcome |-> "none", min_lemmas |-> 0, shown |-> <<>>]
    /\ anchors = <<>>
    /\ themes = NoThemes
    /\ report = NoReport

\* Before VerseIndex(scope_id): any scope over known and unknown books, any
\* book table. An entry of a book outside the scope is never read and is
\* kept empty.
InitIndex ==
    /\ books \in InjSeqs(BookIds)
    /\ OT_BOOKS \in [TableBooks -> BookInfos]
    /\ \A b \in TableBooks :
           (\A k \in 1..Len(books) : books[k] # b) => OT_BOOKS[b] = EmptyBook
    /\ constructed = FALSE
    /\ verse_list = <<>>
    /\ ret = NoCall
    /\ psalm_data = <<>>
    /\ pairs = [computed |-> FALSE, list |-> <<>>]
    /\ InitCallers

NextIndex ==
    \/ Construct
    \/ GetVerseCount
    \/ GetVerseByIndex
    \/ GetMiddleVerse
    \/ GetQuartileVerses
    \/ GetChiasmAnchors

SpecIndex == InitIndex /\ [][NextIndex]_vars

(***************************************************************************)
(* psalm_chiasm_explorer.py: compute_pairings                              *)
(***************************************************************************)
IsSpace(c) == c \in {" ", "\t", "\n"}

\* str.strip(): the word without its leading and trailing whitespace
RECURSIVE Strip(_)
Strip(word) ==
    IF word = <<>> THEN word
    ELSE IF IsSpace(Head(word)) THEN Strip(Tail(word))
    ELSE IF IsSpace(word[Len(word)]) THEN Strip(SubSeq(word, 1, Len(word) - 1))
    ELSE word

\* set(word.strip() for word in v["hebrew_words"] if word.strip())
WordSet(v) ==
    {Strip(v.hebrew_words[k]) : k \in {j \in 1..Len(v.hebrew_words) :
                                          Strip(v.hebrew_words[j]) # <<>>}}

\* SharedWords with the set difference in place of the intersection
SharedWordsDifference(v1, v2) == WordSet(v1) \ WordSet(v2)

\* words_1 & words_2
SharedWords(v1, v2) == WordSet(v1) \cap WordSet(v2)

\* list(a_set): the set's elements once each, in the order the set happens
\* to iterate them - any order
RECURSIVE ListsOfSet(_)
ListsOfSet(S) ==
    IF S = {} THEN {<<>>}
    ELSE UNION {{<<x>> \o rest : rest \in ListsOfSet(S \ {x})} : x \in S}

\* PairType with the second pair tagged as the outer one too
PairTypeOuterTwice(i) == IF i <= 1 THEN "Outer Mirror" ELSE "Quartile Echo"

\* pair_type = "Outer Mirror" if i == 0 else "Quartile Echo"
PairType(i) == IF i = 0 THEN "Outer Mirror" ELSE "Quartile Echo"

\* MirrorCount rounded up, which pairs the middle verse with itself
MirrorCountRoundedUp(n) == (n + 1) \div 2

\* range(n // 2): the number of mirror pairs
MirrorCount(n) == n \div 2

\* verse_2 of a Center Hinge entry
None == [verse |-> 0, hebrew_words |-> <<>>]

\* the entries the loop body may append for i (0-based): one for each order
\* in which the shared set iterates; shared_lemmas and shared_hebrew are
\* read off the same unmodified set and so share that order
MirrorEntries(data, i) ==
    LET n == Len(data)
        v1 == data[i + 1]
        v2 == data[(n - 1 - i) + 1]
    IN  {[type |-> PairType(i),
          verse_1 |-> v1,
          verse_2 |-> v2,
          shared_lemmas |-> [k \in 1..Len(order) |-> <<order[k], order[k]>>],
          shared_hebrew |-> order] : order \in ListsOfSet(SharedWords(v1, v2))}

\* for i in range(n // 2): the lists of entries the loop may build from i on
RECURSIVE MirrorLoop(_, _)
MirrorLoop(data, i) ==
    IF i >= MirrorCount(Len(data))
    THEN {<<>>}
    ELSE {<<e>> \o rest : e \in MirrorEntries(data, i),
                          rest \in MirrorLoop(data, i + 1)}

\* if n % 2 == 1: the Center Hinge entry appended last
CenterEntries(data) ==
    IF Len(data) % 2 = 1
    THEN <<[type |-> "Center Hinge",
            verse_1 |-> data[(Len(data) \div 2) + 1],
            verse_2 |-> None,
            shared_lemmas |-> <<>>,
            shared_hebrew |-> <<>>]>>
    ELSE <<>>

\* compute_pairings(psalm_data): every list it may return
ComputePairingsResults(data) ==
    {mirrors \o CenterEntries(data) : mirrors \in MirrorLoop(data, 0)}

\* a call of compute_pairings on the psalm
ComputePairings ==
    /\ \E result \in ComputePairingsResults(psalm_data) :
           pairs' = [computed |-> TRUE, list |-> result]
    /\ UNCHANGED <<indexVars, psalm_data, callerVars>>

\* the words of the psalms, as characters
WordYhwh == <<"y", "h">>
WordRoi == <<"r">>

\* the word lists a verse's text splits into (split() leaves no whitespace
\* in a word and no empty word)
HebrewWordLists ==
    {<<>>, <<WordYhwh>>, <<WordRoi>>, <<WordYhwh, WordRoi>>,
     <<WordRoi, WordYhwh>>, <<WordYhwh, WordRoi, WordYhwh>>}

\* the psalm parse_psalm_sefaria hands over for the word lists of its
\* verses: verses numbered from 1
PsalmOf(words) ==
    [k \in 1..Len(words) |-> [verse |-> k, hebrew_words |-> words[k]]]

InitPair ==
    /\ \E n \in 0..MaxPsalmVerses :
           \E words \in [1..n -> HebrewWordLists] : psalm_data = PsalmOf(words)
    /\ pairs = [computed |-> FALSE, list |-> <<>>]
    /\ books = <<>>
    /\ OT_BOOKS = [b \in TableBooks |-> EmptyBook]
    /\ constructed = FALSE
    /\ verse_list = <<>>
    /\ ret = NoCall
    /\ InitCallers

NextPair == ComputePairings

SpecPair == InitPair /\ [][NextPair]_vars

\* the list in reverse order: verse_a and verse_b of every mirror pair swap
Reverse(data) == [k \in 1..Len(data) |-> data[Len(data) + 1 - k]]

\* a call of compute_pairings on the psalm's verses in reverse order
ComputePairingsReversed ==
    /\ \E result \in ComputePairingsResults(Reverse(psalm_data)) :
           pairs_reversed' = [computed |-> TRUE, list |-> result]
    /\ UNCHANGED <<indexVars, pairVars, display, analysisVars>>

InitSwapped ==
    /\ \E n \in 0..MaxSwappedVerses :
           \E words \in [1..n -> HebrewWordLists] : psalm_data = PsalmOf(words)
    /\ pairs = [computed |-> FALSE, list |-> <<>>]
    /\ books = <<>>
    /\ OT_BOOKS = [b \in TableBooks |-> EmptyBook]
    /\ constructed = FALSE
    /\ verse_list = <<>>
    /\ ret = NoCall
    /\ InitCallers

NextSwapped ==
    \/ ComputePairings
    \/ ComputePairingsReversed

\* compute_pairings called on a psalm and on the same psalm reversed
SpecSwapped == InitSwapped /\ [][NextSwapped]_vars

(***************************************************************************)
(* psalm_chiasm_explorer.py: the page that displays a psalm's pairs        *)
(***************************************************************************)
\* st.slider("Minimum shared words to display", 0, 5, 0): the largest value
MinLemmasMax == 5

\* Kept without the exemption of the Center Hinge
KeptByCountOnly(pair, min_lemmas) ==
    ~(Len(pair.shared_lemmas) < min_lemmas)

\* the display loop's test: an entry is skipped (continue) when it has fewer
\* shared words than min_lemmas and is no Center Hinge
Kept(pair, min_lemmas) ==
    ~(Len(pair.shared_lemmas) < min_lemmas /\ pair.type # "Center Hinge")

\* for pair in pairs: the entries displayed, in order
ShownPairs(list, min_lemmas) ==
    LET Test(pair) == Kept(pair, min_lemmas)
    IN  SelectSeq(list, Test)

\* one run of the page on the parsed psalm: an empty psalm is a parse error,
\* a one-verse psalm is warned to be too short, any other is paired and its
\* entries are displayed
DisplayPsalm ==
    /\ \E min_lemmas \in 0..MinLemmasMax :
           IF Len(psalm_data) = 0
           THEN /\ display' = [outcome |-> "parse_error",
                               min_lemmas |-> min_lemmas, shown |-> <<>>]
                /\ UNCHANGED pairs
           ELSE IF Len(psalm_data) < 2
           THEN /\ display' = [outcome |-> "too_short",
                               min_lemmas |-> min_lemmas, shown |-> <<>>]
                /\ UNCHANGED pairs
           ELSE \E result \in ComputePairingsResults(psalm_data) :
                    /\ pairs' = [computed |-> TRUE, list |-> result]
                    /\ display' = [outcome |-> "shown",
                                   min_lemmas |-> min_lemmas,
                                   shown |-> ShownPairs(result, min_lemmas)]
    /\ UNCHANGED <<indexVars, psalm_data, pairs_reversed, analysisVars>>

InitDisplay ==
    /\ \E n \in 0..MaxDisplayVerses :
           \E words \in [1..n -> HebrewWordLists] : psalm_data = PsalmOf(words)
    /\ pairs = [computed |-> FALSE, list |-> <<>>]
    /\ books = <<>>
    /\ OT_BOOKS = [b \in TableBooks |-> EmptyBook]
    /\ constructed = FALSE
    /\ verse_list = <<>>
    /\ ret = NoCall
    /\ InitCallers

NextDisplay == DisplayPsalm

SpecDisplay == InitDisplay /\ [][NextDisplay]_vars

(***************************************************************************)
(* chiasm_analysis.py: compare_anchor_themes                               *)
(***************************************************************************)
\* str.split(): the maximal runs of non-whitespace characters of the text
RECURSIVE SplitFrom(_, _)
SplitFrom(text, word) ==
    IF text = <<>>
    THEN IF word = <<>> THEN <<>> ELSE <<word>>
    ELSE IF IsSpace(Head(text))
         THEN (IF word = <<>> THEN <<>> ELSE <<word>>)
                  \o SplitFrom(Tail(text), <<>>)
         ELSE SplitFrom(Tail(text), Append(word, Head(text)))

Split(text) == SplitFrom(text, <<>>)

\* word_freq[word] = word_freq.get(word, 0) + 1
CountWord(word_freq, word) ==
    IF word \in DOMAIN word_freq
    THEN [word_freq EXCEPT ![word] = @ + 1]
    ELSE word_freq @@ (word :> 1)

\* for word in hebrew_words: strip it, count it when longer than 2
RECURSIVE WordLoop(_, _)
WordLoop(word_freq, hebrew_words) ==
    IF hebrew_words = <<>>
    THEN word_freq
    ELSE LET word == Strip(Head(hebrew_words))
         IN  WordLoop(IF Len(word) > 2 THEN CountWord(word_freq, word)
                                       ELSE word_freq,
                      Tail(hebrew_words))

\* for anchor in anchors: split its Hebrew text and count its words
RECURSIVE AnchorLoop(_, _)
AnchorLoop(word_freq, list) ==
    IF list = <<>>
    THEN word_freq
    ELSE AnchorLoop(WordLoop(word_freq, Split(Head(list).hebrew)), Tail(list))

\* {word: count for word, count in word_freq.items() if count >= 2}
RepeatedWords(word_freq) ==
    [word \in {w \in DOMAIN word_freq : word_freq[w] >= 2} |-> word_freq[word]]

\* ChiasmAnalyzer.compare_anchor_themes(anchors)
CompareAnchorThemesResult(list) ==
    LET word_freq == AnchorLoop(<<>>, list)
    IN  [computed |-> TRUE,
         total_unique_words |-> Cardinality(DOMAIN word_freq),
         repeated_words |-> RepeatedWords(word_freq)]

\* a call of compare_anchor_themes on the anchors
CompareAnchorThemes ==
    /\ themes' = CompareAnchorThemesResult(anchors)
    /\ UNCHANGED <<indexVars, pairVars, pairs_reversed, display, anchors, report>>

\* Hebrew texts of anchors, as characters: empty, one long word, one short
\* word, a long word twice, two long words, a short and a long word set
\* apart by two spaces
AnchorTexts ==
    {<<>>,
     <<"a", "b", "c">>,
     <<"y", "h">>,
     <<"a", "b", "c", " ", "a", "b", "c">>,
     <<"a", "b", "c", " ", "d", "e", "f">>,
     <<"y", "h", " ", " ", "d", "e", "f">>}

InitThemes ==
    /\ \E n \in 0..MaxAnchors :
           \E texts \in [1..n -> AnchorTexts] :
               anchors = [k \in 1..n |-> [hebrew |-> texts[k]]]
    /\ themes = NoThemes
    /\ report = NoReport
    /\ pairs_reversed = [computed |-> FALSE, list |-> <<>>]
    /\ display = [outcome |-> "none", min_lemmas |-> 0, shown |-> <<>>]
    /\ psalm_data = <<>>
    /\ pairs = [computed |-> FALSE, list |-> <<>>]
    /\ books = <<>>
    /\ OT_BOOKS = [b \in TableBooks |-> EmptyBook]
    /\ constructed = FALSE
    /\ verse_list = <<>>
    /\ ret = NoCall

NextThemes == CompareAnchorThemes

SpecThemes == InitThemes /\ [][NextThemes]_vars

(***************************************************************************)
(* translations.py and the reports of chiasm_analysis.py                   *)
(***************************************************************************)
\* a text a provider returned for a verse, or a placeholder string
Text(version, v) ==
    [kind |-> "text", body |-> version, of |-> <<v.book_id, v.chapter, v.verse>>]
Placeholder(string) == [kind |-> "placeholder", body |-> string, of |-> <<>>]

\* get_sefaria_verse: the dict returned when the request and its parsing
\* succeed (the transliteration is the Hebrew text as it is)
SefariaFetched(v) ==
    [hebrew |-> Text("hebrew", v),
     jps1917 |-> Text("jps1917", v),
     transliteration |-> Text("hebrew", v),
     ref |-> <<v.book_id, v.chapter, v.verse>>]

\* get_sefaria_verse: the dict of the except branch
SefariaUnavailable(v) ==
    [hebrew |-> Placeholder("[Hebrew text unavailable]"),
     jps1917 |-> Placeholder("[Translation unavailable]"),
     transliteration |-> Placeholder(""),
     ref |-> <<v.book_id, v.chapter, v.verse>>]

\* get_web_translation: the text fetched, and the except branch's string
WebFetched(v) == Text("web", v)
WebUnavailable == Placeholder("[WEB translation unavailable]")

\* get_verse_all_translations: the record put together from the two lookups
AllTranslations(sefaria_data, web_text) ==
    [hebrew |-> sefaria_data.hebrew,
     transliteration |-> sefaria_data.transliteration,
     jps1917 |-> sefaria_data.jps1917,
     web |-> web_text,
     ref |-> sefaria_data.ref]

\* the VerseIndex call a report opens with
ReportLookups(name, list) ==
    CASE name = "middle" ->
             Lookups("get_middle_verse", list, MiddleWanted(Len(list)))
      [] name = "quartile" ->
             Lookups("get_quartile_verses", list, QuartileWanted(Len(list)))
      [] name = "full" ->
             Lookups("get_chiasm_anchors", list, AnchorWanted(Len(list)))

\* the "position" of a report entry
PositionOf(name, key) ==
    CASE name = "middle" -> "Center (Q2)"
      [] name = "quartile" -> key
      [] name = "full" ->
             CASE key = "first" -> "Opening"
               [] key = "Q1" -> "First Quartile"
               [] key = "Q2_middle" -> "MIDDLE/CENTER"
               [] key = "Q3" -> "Third Quartile"
               [] key = "last" -> "Closing"

\* the dict a report builds for one anchor
ReportEntry(name, anchor, verse_data) ==
    [position |-> PositionOf(name, anchor.key),
     key |-> anchor.key,
     verse_info |-> anchor.verse,
     index |-> anchor.verse.index,
     hebrew |-> verse_data.hebrew,
     transliteration |-> verse_data.transliteration,
     jps1917 |-> verse_data.jps1917,
     web |-> verse_data.web]

\* ResultsAppend putting the new entry first
ResultsPrepend(results, entry) == <<entry>> \o results

\* results.append({...})
ResultsAppend(results, entry) == Append(results, entry)

\* the anchor the report's loop is at
CurrentAnchor == report.todo[report.pos]

LogEvent(event, service) ==
    [event |-> event, service |-> service, anchor |-> report.pos,
     verse |-> CurrentAnchor.verse.index]

\* get_middle_verse_analysis / get_quartile_frame_analysis /
\* get_full_chiasm_anchors: the call of the index that opens the report; an
\* IndexError of the index leaves the report
StartReport ==
    /\ FreshIndex
    /\ report.pc = "idle"
    /\ \E name \in {"middle", "quartile", "full"} :
           /\ ret' = ReportLookups(name, verse_list)
           /\ report' = IF ret'.status = "ok"
                        THEN [report EXCEPT !.name = name, !.pc = "sefaria",
                                            !.todo = ret'.val, !.pos = 1]
                        ELSE [report EXCEPT !.name = name, !.pc = "raised"]
    /\ UNCHANGED <<books, OT_BOOKS, constructed, verse_list, pairVars,
                   pairs_reversed, display, anchors, themes>>

reportFrame == <<indexVars, pairVars, pairs_reversed, display, anchors, themes>>

\* get_verse_all_translations calls get_sefaria_verse: the request goes out
IssueSefaria ==
    /\ report.pc = "sefaria"
    /\ report' = [report EXCEPT !.pc = "sefaria_wait",
                                !.log = Append(@, LogEvent("call", "sefaria"))]
    /\ UNCHANGED reportFrame

\* get_sefaria_verse returns: the fetched dict, or, whatever was raised
\* inside its try block, the placeholder dict
CompleteSefaria ==
    /\ report.pc = "sefaria_wait"
    /\ \E fetched \in BOOLEAN :
           report' = [report EXCEPT
               !.pc = "web",
               !.sefaria_data = IF fetched
                                THEN SefariaFetched(CurrentAnchor.verse)
                                ELSE SefariaUnavailable(CurrentAnchor.verse),
               !.log = Append(@, LogEvent("return", "sefaria"))]
    /\ UNCHANGED reportFrame

\* get_verse_all_translations calls get_web_translation: the request goes out
IssueWeb ==
    /\ report.pc = "web"
    /\ report' = [report EXCEPT !.pc = "web_wait",
                                !.log = Append(@, LogEvent("call", "web"))]
    /\ UNCHANGED reportFrame

\* get_web_translation returns: the text, or the placeholder string
CompleteWeb ==
    /\ report.pc = "web_wait"
    /\ \E fetched \in BOOLEAN :
           report' = [report EXCEPT
               !.pc = "append",
               !.web_text = IF fetched THEN WebFetched(CurrentAnchor.verse)
                                       ELSE WebUnavailable,
               !.log = Append(@, LogEvent("return", "web"))]
    /\ UNCHANGED reportFrame

\* the entry of the current anchor is appended; the loop moves to the next
\* anchor, or the report returns
AppendEntry ==
    /\ report.pc = "append"
    /\ report' = [report EXCEPT
           !.results = ResultsAppend(@, ReportEntry(report.name, CurrentAnchor,
                           AllTranslations(report.sefaria_data, report.web_text))),
           !.pos = IF report.pos < Len(report.todo) THEN @ + 1 ELSE @,
           !.pc = IF report.pos < Len(report.todo) THEN "sefaria" ELSE "done"]
    /\ UNCHANGED reportFrame

\* a book of one chapter holding count verses
OneChapter(count) == [chapters |-> 1, verses_per_chapter |-> <<count>>]

\* Before ChiasmAnalyzer(scope_id): a scope of two books of one chapter each
InitReport ==
    /\ books = <<"GEN", "EXO">>
    /\ \E g, e \in 0..MaxReportVerses :
           OT_BOOKS = [b \in TableBooks |->
                          IF b = "GEN" THEN OneChapter(g) ELSE OneChapter(e)]
    /\ constructed = FALSE
    /\ verse_list = <<>>
    /\ ret = NoCall
    /\ psalm_data = <<>>
    /\ pairs = [computed |-> FALSE, list |-> <<>>]
    /\ InitCallers

NextReport ==
    \/ Construct
    \/ StartReport
    \/ IssueSefaria
    \/ CompleteSefaria
    \/ IssueWeb
    \/ CompleteWeb
    \/ AppendEntry

SpecReport == InitReport /\ [][NextReport]_vars

(***************************************************************************)
(* Claims about the verse index, checked under SpecIndex.                  *)
(***************************************************************************)
N == Len(verse_list)

\* the position of a book in the scope (the scope names a book once)
BookPos(book_id) == CHOOSE k \in 1..Len(books) : books[k] = book_id

\* u comes before v in (book order in the scope, chapter, verse) order
Precedes(u, v) ==
    \/ BookPos(u.book_id) < BookPos(v.book_id)
    \/ /\ u.book_id = v.book_id
       /\ \/ u.chapter < v.chapter
          \/ u.chapter = v.chapter /\ u.verse < v.verse

\* the verse a returned dict holds under a key
Entry(key) == (CHOOSE i \in 1..Len(ret.val) : ret.val[i].key = key)
ValueOf(key) == ret.val[Entry(key)].verse
Keys == {ret.val[i].key : i \in 1..Len(ret.val)}

\* C1: the list the constructor builds carries index i at position i, so its
\* index values are exactly 0..N-1 without duplicates, and u precedes v in
\* (book order, chapter, verse) order iff u.index < v.index.
C1_DenseOrderedIndex ==
    ret.op = "__init__" =>
        /\ \A i \in 1..N : verse_list[i].index = i - 1
        /\ {verse_list[i].index : i \in 1..N} = 0..(N - 1)
        /\ \A i, j \in 1..N :
               Precedes(verse_list[i], verse_list[j])
                   <=> verse_list[i].index < verse_list[j].index

\* a built list over two books, one of them with verses in two chapters
C1_Witness ==
    /\ ret.op = "__init__"
    /\ N >= 4
    /\ \E i, j \in 1..N : verse_list[i].book_id # verse_list[j].book_id
    /\ \E i, j \in 1..N : /\ verse_list[i].book_id = verse_list[j].book_id
                          /\ verse_list[i].chapter # verse_list[j].chapter

\* C2: for N >= 1 get_middle_verse returns the verse with index N // 2; for
\* N >= 4 get_quartile_verses returns the verses with indices N//4, N//2 and
\* 3N//4, strictly increasing.
C2_MiddleAndQuartiles ==
    /\ (ret.op = "get_middle_verse" /\ N >= 1) =>
           /\ ret.status = "ok"
           /\ ValueOf("middle").index = N \div 2
           /\ ValueOf("middle") = verse_list[(N \div 2) + 1]
    /\ (ret.op = "get_quartile_verses" /\ N >= 4) =>
           /\ ret.status = "ok"
           /\ Keys = {"Q1", "Q2", "Q3"}
           /\ ValueOf("Q1").index = N \div 4
           /\ ValueOf("Q2").index = N \div 2
           /\ ValueOf("Q3").index = (3 * N) \div 4
           /\ ValueOf("Q1").index < ValueOf("Q2").index
           /\ ValueOf("Q2").index < ValueOf("Q3").index

\* the quartiles of a list whose length is no multiple of 4
C2_Witness ==
    /\ ret.op = "get_quartile_verses"
    /\ ret.status = "ok"
    /\ N >= 6
    /\ N % 4 = 2

\* C3: for N >= 1 get_chiasm_anchors returns first with index 0 and last
\* with index N - 1, and each of the five subscripts lies in [0, N), so that
\* no lookup raises.
C3_FirstLastInRange ==
    (ret.op = "get_chiasm_anchors" /\ N >= 1) =>
        /\ ret.status = "ok"
        /\ Keys = {"first", "Q1", "Q2_middle", "Q3", "last"}
        /\ ValueOf("first").index = 0
        /\ ValueOf("last").index = N - 1
        /\ \A i \in 1..Len(ret.val) :
               /\ 0 <= ret.val[i].verse.index
               /\ ret.val[i].verse.index < N
        /\ {ret.val[i].verse.index : i \in 1..Len(ret.val)} =
               {0, N \div 4, N \div 2, (3 * N) \div 4, N - 1}

\* the anchors of a list of five verses or more
C3_Witness ==
    /\ ret.op = "get_chiasm_anchors"
    /\ ret.status = "ok"
    /\ N >= 5

\* C4: N = 1: first, middle and last are all the verse at index 0;
\* N = 2: Q1 is the verse first is, Q3 the verse last is.
C4_DegenerateScopes ==
    ret.op = "get_chiasm_anchors" =>
        /\ N = 1 =>
               /\ ret.status = "ok"
               /\ ValueOf("first") = verse_list[1]
               /\ ValueOf("Q2_middle") = verse_list[1]
               /\ ValueOf("last") = verse_list[1]
               /\ verse_list[1].index = 0
        /\ N = 2 =>
               /\ ret.status = "ok"
               /\ ValueOf("Q1") = ValueOf("first")
               /\ ValueOf("Q3") = ValueOf("last")
               /\ ValueOf("first") # ValueOf("last")

\* the anchors of a two-verse list
C4_Witness ==
    /\ ret.op = "get_chiasm_anchors"
    /\ ret.status = "ok"
    /\ N = 2

\* C5 as stated: for 1 <= N <= 2 first, Q1 and middle are the same verse.
C5_FirstQ1MiddleCoincide ==
    (ret.op = "get_chiasm_anchors" /\ 1 <= N /\ N <= 2) =>
        /\ ret.status = "ok"
        /\ ValueOf("first") = ValueOf("Q1")
        /\ ValueOf("Q1") = ValueOf("Q2_middle")

\* C5 amended: for N = 1 first, Q1 and middle are the same verse; for N = 2
\* first and Q1 are the verse at index 0, while middle is the verse at index
\* 1 (the verse Q3 and last are).
C5_FirstQ1MiddleAmended ==
    ret.op = "get_chiasm_anchors" =>
        /\ N = 1 =>
               /\ ret.status = "ok"
               /\ ValueOf("first") = ValueOf("Q1")
               /\ ValueOf("Q1") = ValueOf("Q2_middle")
        /\ N = 2 =>
               /\ ret.status = "ok"
               /\ ValueOf("first") = ValueOf("Q1")
               /\ ValueOf("first").index = 0
               /\ ValueOf("Q2_middle").index = 1
               /\ ValueOf("Q2_middle") = ValueOf("Q3")
               /\ ValueOf("Q2_middle") = ValueOf("last")

\* the anchors of a two-verse list whose middle is not its first verse
C5_Witness ==
    /\ ret.op = "get_chiasm_anchors"
    /\ ret.status = "ok"
    /\ N = 2
    /\ ValueOf("Q2_middle") # ValueOf("first")

\* C6 as stated: a scope that flattens to no verse is turned away by the
\* constructor, so no index with N = 0 exists and no anchor query is
\* evaluated on an empty list.
C6_EmptyScopeRejected ==
    /\ constructed => N >= 1
    /\ ret.op \in {"get_middle_verse", "get_quartile_verses",
                   "get_chiasm_anchors"} => N >= 1

\* C7 as stated: get_verse_by_index returns the verse with the index asked
\* for when 0 <= index < N and fails with an error for every other index.
C7_OutOfRangeFails ==
    ret.op = "get_verse_by_index" =>
        /\ (0 <= ret.arg /\ ret.arg < N) =>
               /\ ret.status = "ok"
               /\ ValueOf("verse").index = ret.arg
        /\ ~(0 <= ret.arg /\ ret.arg < N) =>
               ret.status \in {"IndexError", "IndexOutOfRangeError"}

\* C7 amended: get_verse_by_index returns the verse with the index asked for
\* when 0 <= index < N, and returns None, raising nothing, for every other
\* index.
C7_OutOfRangeReturnsNone ==
    ret.op = "get_verse_by_index" =>
        /\ (0 <= ret.arg /\ ret.arg < N) =>
               /\ ret.status = "ok"
               /\ ValueOf("verse").index = ret.arg
               /\ ValueOf("verse") = verse_list[ret.arg + 1]
        /\ ~(0 <= ret.arg /\ ret.arg < N) =>
               /\ ret.status = "None"
               /\ ret.val = <<>>

\* index N asked of a list of N >= 1 verses, and None returned
C7_Witness ==
    /\ ret.op = "get_verse_by_index"
    /\ N >= 1
    /\ ret.arg = N
    /\ ret.status = "None"

(***************************************************************************)
(* Claims about compute_pairings, checked under SpecPair.                  *)
(***************************************************************************)
PsalmLen == Len(psalm_data)
PairList == pairs.list

\* the entries that hold the psalm's k-th verse
EntriesHolding(k) ==
    {e \in 1..Len(PairList) : \/ PairList[e].verse_1 = psalm_data[k]
                              \/ PairList[e].verse_2 = psalm_data[k]}

\* C8: compute_pairings returns n // 2 mirror pairs and, for odd n, one
\* Center Hinge entry; the i-th mirror pair holds input[i] and input[n-1-i];
\* every input verse is in exactly one entry.
C8_PairingSymmetry ==
    pairs.computed =>
        /\ Cardinality({e \in 1..Len(PairList) : PairList[e].verse_2 # None})
               = PsalmLen \div 2
        /\ Cardinality({e \in 1..Len(PairList) :
                           PairList[e].type = "Center Hinge"}) = PsalmLen % 2
        /\ Len(PairList) = (PsalmLen \div 2) + (PsalmLen % 2)
        /\ \A i \in 0..((PsalmLen \div 2) - 1) :
               /\ PairList[i + 1].verse_1 = psalm_data[i + 1]
               /\ PairList[i + 1].verse_2 = psalm_data[PsalmLen - i]
        /\ \A k \in 1..PsalmLen : Cardinality(EntriesHolding(k)) = 1

\* the pairing of a five-verse psalm
C8_Witness ==
    /\ pairs.computed
    /\ PsalmLen = 5
    /\ Len(PairList) = 3

\* C9: the first mirror pair is an Outer Mirror, every later one a Quartile
\* Echo; for odd n the last entry, and no other, is a Center Hinge holding
\* input[n // 2], no partner and no shared token; n = 0 gives the empty
\* list, n = 1 one Center Hinge and no mirror pair.
C9_KindsAndOrder ==
    pairs.computed =>
        /\ PsalmLen >= 2 => PairList[1].type = "Outer Mirror"
        /\ \A e \in 2..(PsalmLen \div 2) : PairList[e].type = "Quartile Echo"
        /\ PsalmLen % 2 = 1 =>
               /\ Len(PairList) >= 1
               /\ PairList[Len(PairList)].type = "Center Hinge"
               /\ PairList[Len(PairList)].verse_1 =
                      psalm_data[(PsalmLen \div 2) + 1]
               /\ PairList[Len(PairList)].verse_2 = None
               /\ PairList[Len(PairList)].shared_lemmas = <<>>
               /\ PairList[Len(PairList)].shared_hebrew = <<>>
        /\ \A e \in 1..Len(PairList) :
               PairList[e].type = "Center Hinge" =>
                   PsalmLen % 2 = 1 /\ e = Len(PairList)
        /\ PsalmLen = 0 => PairList = <<>>
        /\ PsalmLen = 1 =>
               Len(PairList) = 1 /\ PairList[1].type = "Center Hinge"

\* an odd psalm with an outer pair, an echo pair and its hinge
C9_Witness ==
    /\ pairs.computed
    /\ Len(PairList) = 3
    /\ PairList[1].type = "Outer Mirror"
    /\ PairList[2].type = "Quartile Echo"
    /\ PairList[3].type = "Center Hinge"

\* the keys of `shared` in the order of their first occurrence in words
RECURSIVE FirstOccurrences(_, _)
FirstOccurrences(words, shared) ==
    IF words = <<>> THEN <<>>
    ELSE IF Strip(Head(words)) \in shared
         THEN <<Strip(Head(words))>>
                  \o FirstOccurrences(Tail(words), shared \ {Strip(Head(words))})
         ELSE FirstOccurrences(Tail(words), shared)

\* the comparison keys of a verse
KeysOf(v) ==
    {Strip(v.hebrew_words[k]) : k \in 1..Len(v.hebrew_words)} \ {<<>>}

\* C10 as stated: a mirror pair's shared tokens are the intersection of the
\* two verses' key sets, listed in verse_a's token order: each key once, at
\* its first occurrence in verse_a, in verse_a's display form.
C10_SharedInVerseAOrder ==
    pairs.computed =>
        \A e \in 1..Len(PairList) :
            PairList[e].verse_2 # None =>
                /\ {PairList[e].shared_hebrew[k] :
                       k \in 1..Len(PairList[e].shared_hebrew)}
                       = KeysOf(PairList[e].verse_1) \cap KeysOf(PairList[e].verse_2)
                /\ PairList[e].shared_hebrew =
                       FirstOccurrences(PairList[e].verse_1.hebrew_words,
                           KeysOf(PairList[e].verse_1) \cap KeysOf(PairList[e].verse_2))
                /\ PairList[e].shared_lemmas =
                       [k \in 1..Len(PairList[e].shared_hebrew) |->
                           <<PairList[e].shared_hebrew[k],
                             PairList[e].shared_hebrew[k]>>]

(***************************************************************************)
(* Claims about the overlap of swapped verses, checked under SpecSwapped.  *)
(***************************************************************************)
\* the elements of a list, as a set
Elements(list) == {list[k] : k \in 1..Len(list)}

\* C11: the shared tokens computed for (a, b) and for (b, a) are the same
\* set: compute_pairings on the reversed list gives, at each mirror pair
\* position, the same two verses swapped and the same shared-token set.
C11_OverlapCommutes ==
    (pairs.computed /\ pairs_reversed.computed) =>
        \A i \in 1..(PsalmLen \div 2) :
            /\ pairs_reversed.list[i].verse_1 = PairList[i].verse_2
            /\ pairs_reversed.list[i].verse_2 = PairList[i].verse_1
            /\ Elements(pairs_reversed.list[i].shared_hebrew)
                   = Elements(PairList[i].shared_hebrew)
            /\ Elements(pairs_reversed.list[i].shared_lemmas)
                   = Elements(PairList[i].shared_lemmas)

\* both calls made on a psalm whose outer verses differ in words, share one
\* and do not share another
C11_Witness ==
    /\ pairs.computed
    /\ pairs_reversed.computed
    /\ PsalmLen >= 2
    /\ PairList[1].verse_1.hebrew_words # PairList[1].verse_2.hebrew_words
    /\ Len(PairList[1].shared_hebrew) = 1
    /\ Len(pairs_reversed.list[1].shared_hebrew) = 1
    /\ Len(PairList[1].verse_1.hebrew_words)
           # Len(PairList[1].verse_2.hebrew_words)

(***************************************************************************)
(* Claims about the displayed pairs, checked under SpecDisplay.            *)
(***************************************************************************)
\* the Center Hinge entries on display
ShownHinges ==
    {k \in 1..Len(display.shown) : display.shown[k].type = "Center Hinge"}

\* the computed entries the threshold lets through
EntriesAtOrAbove ==
    {e \in Elements(PairList) :
        Len(e.shared_lemmas) >= display.min_lemmas \/ e.type = "Center Hinge"}

\* C12 as stated: a mirror pair is dropped only when its shared-token count
\* is below the threshold, and whenever the passage has an odd number of
\* verses (n = 1 included) its Center Hinge entry is shown.
C12_HingeAlwaysShown ==
    display.outcome # "none" =>
        /\ \A e \in Elements(PairList) :
               (e.verse_2 # None /\ Len(e.shared_lemmas) >= display.min_lemmas)
                   => e \in Elements(display.shown)
        /\ PsalmLen % 2 = 1 =>
               \E k \in ShownHinges :
                   display.shown[k].verse_1 = psalm_data[(PsalmLen \div 2) + 1]

\* C12 amended: for a passage of n >= 2 verses the entries shown are the
\* computed ones, in order, less the mirror pairs whose shared-token count is
\* below the threshold; the Center Hinge of an odd n >= 3 is shown whatever
\* the threshold; for n = 1 no pairing is computed and no entry is shown.
C12_HingeShownFromThreeVerses ==
    /\ display.outcome = "shown" =>
           /\ PsalmLen >= 2
           /\ pairs.computed
           /\ Elements(display.shown) = EntriesAtOrAbove
           /\ Len(display.shown) = Cardinality(EntriesAtOrAbove)
           /\ \A j, k \in 1..Len(display.shown) :
                  j < k => display.shown[j].verse_1.verse
                               < display.shown[k].verse_1.verse
           /\ PsalmLen % 2 = 1 =>
                  /\ Cardinality(ShownHinges) = 1
                  /\ display.shown[Len(display.shown)].type = "Center Hinge"
                  /\ display.shown[Len(display.shown)].verse_1
                         = psalm_data[(PsalmLen \div 2) + 1]
    /\ (display.outcome # "none" /\ PsalmLen = 1) =>
           /\ display.outcome = "too_short"
           /\ display.shown = <<>>
           /\ ~pairs.computed
    /\ (display.outcome # "none" /\ PsalmLen >= 2) => display.outcome = "shown"

\* a three-verse psalm on display whose outer pair the threshold drops and
\* whose hinge is shown
C12_Witness ==
    /\ display.outcome = "shown"
    /\ PsalmLen = 3
    /\ display.min_lemmas >= 1
    /\ Len(PairList[1].shared_lemmas) < display.min_lemmas
    /\ Len(display.shown) = 1
    /\ display.shown[1].type = "Center Hinge"

(***************************************************************************)
(* Claims about compare_anchor_themes, checked under SpecThemes.           *)
(***************************************************************************)
\* the words of an anchor's text that are longer than 2
RetainedOf(anchor) ==
    {w \in Elements(Split(anchor.hebrew)) : Len(w) > 2}

\* the distinct retained words of all the anchors
RetainedWords == UNION {RetainedOf(anchors[k]) : k \in 1..Len(anchors)}

\* the anchors in which a word occurs
AnchorsWith(w) == {k \in 1..Len(anchors) : w \in RetainedOf(anchors[k])}

\* C13 as stated: repeated_words holds exactly the retained words (split on
\* whitespace, longer than 2) that occur in at least 2 of the anchors - a
\* word repeated inside one anchor only is not reported - and
\* total_unique_words is the number of distinct retained words.
C13_RepeatedAcrossAnchors ==
    themes.computed =>
        /\ DOMAIN themes.repeated_words
               = {w \in RetainedWords : Cardinality(AnchorsWith(w)) >= 2}
        /\ themes.total_unique_words = Cardinality(RetainedWords)

(***************************************************************************)
(* Claims about the reports, checked under SpecReport.                     *)
(***************************************************************************)
\* the number of entries a report returns
EntriesOf(name) ==
    CASE name = "middle" -> 1
      [] name = "quartile" -> 3
      [] name = "full" -> 5
      [] OTHER -> 0

\* a text field is the text of verse v, or its placeholder
TextOrPlaceholder(field, version, string, v) ==
    field \in {Text(version, v), Placeholder(string)}

\* a report entry has every translation field, each the verse's own text or
\* the placeholder of a failed lookup
CompleteShaped(entry) ==
    /\ TextOrPlaceholder(entry.hebrew, "hebrew",
                         "[Hebrew text unavailable]", entry.verse_info)
    /\ TextOrPlaceholder(entry.jps1917, "jps1917",
                         "[Translation unavailable]", entry.verse_info)
    /\ TextOrPlaceholder(entry.transliteration, "hebrew", "", entry.verse_info)
    /\ TextOrPlaceholder(entry.web, "web",
                         "[WEB translation unavailable]", entry.verse_info)

\* every lookup of the report failed
AllLookupsFailed ==
    \A k \in 1..Len(report.results) :
        /\ report.results[k].hebrew.kind = "placeholder"
        /\ report.results[k].web.kind = "placeholder"

\* C14 as stated: whatever lookups fail, every record of translations is
\* complete-shaped, with placeholders for the failed parts, and the three
\* reports run to completion with 1, 3 and 5 entries, never raising.
C14_ReportsAlwaysComplete ==
    /\ report.pc # "raised"
    /\ \A k \in 1..Len(report.results) : CompleteShaped(report.results[k])
    /\ report.pc = "done" => Len(report.results) = EntriesOf(report.name)

\* C14 on an index that holds a verse: there the reports never raise and
\* return 1, 3 and 5 complete-shaped entries, whatever lookups fail.
C14_CompleteOnNonEmptyIndex ==
    N >= 1 =>
        /\ report.pc # "raised"
        /\ \A k \in 1..Len(report.results) : CompleteShaped(report.results[k])
        /\ report.pc = "done" => Len(report.results) = EntriesOf(report.name)

\* the full report returned after every lookup failed
C14_AllFailedStillComplete ==
    /\ report.pc = "done"
    /\ report.name = "full"
    /\ Len(report.results) = 5
    /\ AllLookupsFailed

\* the keys of the report's entries, in order
ResultKeys == [k \in 1..Len(report.results) |-> report.results[k].key]

\* the subscripts the report's anchors are read at, in order
ExpectedIndices(name) ==
    CASE name = "middle" -> <<N \div 2>>
      [] name = "quartile" -> <<N \div 4, N \div 2, (3 * N) \div 4>>
      [] name = "full" -> <<0, N \div 4, N \div 2, (3 * N) \div 4, N - 1>>
      [] OTHER -> <<>>

ExpectedKeys(name) ==
    CASE name = "middle" -> <<"middle">>
      [] name = "quartile" -> <<"Q1", "Q2", "Q3">>
      [] name = "full" -> <<"first", "Q1", "Q2_middle", "Q3", "last">>
      [] OTHER -> <<>>

\* the j-th event of a run that looks one anchor up at a time, in order:
\* sefaria out, sefaria back, web out, web back, then the next anchor
SequentialEvent(j) ==
    LET k == ((j - 1) \div 4) + 1
        step == (j - 1) % 4
    IN  [event |-> IF step \in {0, 2} THEN "call" ELSE "return",
         service |-> IF step \in {0, 1} THEN "sefaria" ELSE "web",
         anchor |-> k,
         verse |-> ExpectedIndices(report.name)[k]]

\* C15: for N >= 1 the full report returns 5 entries in the order first, Q1,
\* Q2_middle, Q3, last and the quartile report 3 entries in the order Q1,
\* Q2, Q3; the lookups go out one anchor at a time in that order, each
\* returning before the next goes out; entry k carries anchor k's verse and
\* that verse's translations.
C15_ReportOrder ==
    N >= 1 =>
        /\ report.pc # "raised"
        /\ Len(report.log) <= 4 * EntriesOf(report.name)
        /\ \A j \in 1..Len(report.log) : report.log[j] = SequentialEvent(j)
        /\ \A k \in 1..Len(report.results) :
               /\ k <= EntriesOf(report.name)
               /\ report.results[k].key = ExpectedKeys(report.name)[k]
               /\ report.results[k].index = ExpectedIndices(report.name)[k]
               /\ report.results[k].verse_info
                      = verse_list[ExpectedIndices(report.name)[k] + 1]
               /\ CompleteShaped(report.results[k])
               /\ report.results[k].position
                      = PositionOf(report.name, ExpectedKeys(report.name)[k])
               /\ Len(report.log) >= 4 * k
        /\ report.pc = "done" =>
               /\ ResultKeys = ExpectedKeys(report.name)
               /\ Len(report.log) = 4 * EntriesOf(report.name)

\* the full report returned for two verses, where anchors coincide, with a
\* lookup failed and a lookup answered
C15_Witness ==
    /\ report.pc = "done"
    /\ report.name = "full"
    /\ N = 2
    /\ Len(report.results) = 5
    /\ Len(report.log) = 20
    /\ report.results[1].hebrew.kind = "placeholder"
    /\ report.results[5].hebrew.kind = "text"

====
